---- MODULE Spec2Model ----
(***************************************************************************)
(* Model of robust_speech: brain.py (ASRBrain, PredictionEnsemble,         *)
(* EnsembleASRBrain, AdvASRBrain) and adversarial/write_result.py          *)
(* (_print_alignment).                                                      *)
(*                                                                          *)
(* Python values are modelled as follows.  A list is a function on         *)
(* 0..n-1 (Python indexes from 0).  A call that may raise returns a record *)
(* whose field "raised" is "none" or the name of the exception; only when  *)
(* it is "none" is there a field "ret".  A str is a sequence of characters.*)
(***************************************************************************)
EXTENDS Integers, Sequences, FiniteSets, TLC

VARIABLES
    \* ---- EnsembleASRBrain (brain.py 85-125) ----
    nmodels,        \* self.nmodels
    ref_tokens,     \* self.ref_tokens
    loss_table,     \* loss_table[i]: the loss member brain i computes for the batch
    ens_call,       \* the last method call made on the ensemble, with its arguments
    ens_out,        \* its outcome: [raised, ret, calls]
    \* ---- _print_alignment (write_result.py 126-147) ----
    alignment,      \* the argument alignment: a sequence of triples <<op, i, j>>
    printed,        \* the lines written to file, in order
    \* ---- AdvASRBrain (brain.py 128-505) ----
    attacker,       \* self.attacker: "unset" (attribute never assigned), "None", "present"
    debug,          \* self.debug
    debug_batches,  \* self.debug_batches
    debug_epochs,   \* self.debug_epochs
    auto_mix_prec,  \* self.auto_mix_prec
    main_process,   \* sb.utils.distributed.if_main_process() in this process
    train_set,      \* fit's train_set, valid_set and evaluate's test_set: loaders
    valid_set,
    test_set,
    pc,             \* where fit or evaluate stands
    epoch,          \* fit's loop variable epoch
    step,           \* self.step
    idx,            \* number of batches the current batch loop has taken
    batch,          \* the loop variable batch (the object the loader yielded)
    avg_train_loss, \* self.avg_train_loss
    avg_valid_loss, avg_valid_adv_loss,     \* fit's locals
    avg_test_loss, avg_test_adv_loss,       \* evaluate's locals
    stage_log,      \* the on_stage_start / on_stage_end calls made, in order
    batch_log,      \* the per-batch calls of the current stage, in order
    fit_trace,      \* what the latest fit_batch_adversarial did, in order
    last_adv,       \* the latest compute_forward_adversarial call and its outcome
    saved_ckpt,     \* whether the latest training batch saved an intra-epoch checkpoint
    exc,            \* the exception that ended fit or evaluate, or "none"
    \* ---- fit in the processes of a DDP job (brain.py 338-432) ----
    p_pc,           \* p_pc[p]: where process p stands in fit
    p_epoch,        \* its loop variable epoch
    p_step,         \* its self.step
    p_idx,          \* number of training batches its loop has taken this epoch
    p_last_ckpt,    \* the batch at which it last set last_ckpt_time (0: line 352)
    p_arrived,      \* number of DDP barriers it has entered
    p_resume,       \* where it continues after the barrier it waits at
    p_saved,        \* the processes that have saved an intra-epoch checkpoint
    \* ---- AdvASRBrain.__setattr__ and construction (brain.py 132-180) ----
    adv_brain,      \* an AdvASRBrain object: its attributes and its attribute attacker
    assigned,       \* the names assigned on it since its present attacker was attached
    last_set        \* the latest attribute assignment on it and whether it raised

ensVars == <<nmodels, ref_tokens, loss_table, ens_call, ens_out>>

alignVars == <<alignment, printed>>

cfgVars == <<attacker, debug, debug_batches, debug_epochs, auto_mix_prec,
             main_process, train_set, valid_set, test_set>>

avgVars == <<avg_train_loss, avg_valid_loss, avg_valid_adv_loss,
             avg_test_loss, avg_test_adv_loss>>

runVars == <<pc, epoch, step, idx, batch, stage_log, batch_log, fit_trace,
             last_adv, saved_ckpt, exc>>

brainVars == <<cfgVars, avgVars, runVars>>

ddpVars == <<p_pc, p_epoch, p_step, p_idx, p_last_ckpt, p_arrived, p_resume, p_saved>>

attrVars == <<adv_brain, assigned, last_set>>

vars == <<ensVars, alignVars, brainVars, ddpVars, attrVars>>

\* ------------------------------------------------------------------ bounds
MaxModels == 2
MaxLoss == 1
MaxAlign == 2
MaxBatches == 2         \* batches a loader yields
MaxStep == 2            \* self.step when fit or evaluate is entered
MaxDebugBatches == 2
MaxEpochs == 2          \* epochs the epoch counter yields
MaxRank == 1            \* the processes of a DDP job have ranks 0 .. MaxRank
MaxAttr == 2            \* attribute values are 0 .. MaxAttr

\* ------------------------------------------------------------ Python model
\* an optional index (model_idx): None is <<>>, the index k is <<k>>
None == <<>>

Idx(k) == <<k>>

OptIndex(n) == {None} \cup {Idx(k) : k \in 0 .. (n - 1)}

Ok(v, calls) == [raised |-> "none", ret |-> v, calls |-> calls]

Raise(e, calls) == [raised |-> e, calls |-> calls]

RECURSIVE SeqOf(_, _)
\* the sequence f[0], ..., f[n-1] of a Python list f of length n
SeqOf(f, n) == IF n = 0 THEN <<>> ELSE Append(SeqOf(f, n - 1), f[n - 1])

RECURSIVE SumSeq(_)
SumSeq(s) == IF s = <<>> THEN 0 ELSE s[1] + SumSeq(Tail(s))

\* torch.mean over dim 0 of a stacked tensor: an exact rational num/den
Mean(s) == [num |-> SumSeq(s), den |-> Len(s)]

\* ----------------------------------------------------------------- ASRBrain
Batches == {"b1", "b2"}

Stages == {"TRAIN", "VALID", "TEST"}

\* What member brain i's compute_forward returns: a tuple whose last element
\* is the predicted tokens (ASRBrain.compute_forward docstring).
MemberForward(i, bat, stage) ==
    [class |-> "tuple",
     items |-> <<[by |-> i, batch |-> bat, stage |-> stage],
                 [tokens_of |-> i, batch |-> bat]>>]

\* ASRBrain.get_tokens: predictions[-1]
ASRBrain_get_tokens(predictions) ==
    predictions.items[Len(predictions.items)]

\* member brain i's compute_objectives on a prediction (the prediction it is
\* given is recorded in the call)
MemberObjectives(i, pred) == loss_table[i]

\* -------------------------------------------------------- PredictionEnsemble
PredictionEnsemble(predictions) ==
    [class |-> "PredictionEnsemble", predictions |-> predictions]

isinstance_PredictionEnsemble(p) == p.class = "PredictionEnsemble"

\* len(p): PredictionEnsemble.__len__, or the length of a tuple
PyLen(p) ==
    IF isinstance_PredictionEnsemble(p)
    THEN Cardinality(DOMAIN p.predictions)
    ELSE Len(p.items)

\* p[i]: PredictionEnsemble defines __init__, __iter__ and __len__ only, so
\* subscripting one raises TypeError ("object is not subscriptable").
PredictionEnsemble_getitem(p, i) == [raised |-> "TypeError"]

\* iter(p), as enumerate(p) calls it: __iter__(self, i) lacks its argument i,
\* so the call raises TypeError.
PredictionEnsemble_iter(p) == [raised |-> "TypeError"]

\* ---------------------------------------------------------- EnsembleASRBrain
Models == 0 .. (nmodels - 1)

ForwardCall(i, bat, stage) ==
    [fn |-> "compute_forward", brain |-> i, batch |-> bat, stage |-> stage]

TokensCall(i, pred) == [fn |-> "get_tokens", brain |-> i, pred |-> pred]

ObjectivesCall(i, pred) == [fn |-> "compute_objectives", brain |-> i, pred |-> pred]

\* compute_forward testing "if model_idx:" instead of "is not None": index 0
\* is then taken for no index
Ens_compute_forward_truthy(bat, stage, model_idx) ==
    IF model_idx # None /\ model_idx # Idx(0)
    THEN Ok(MemberForward(model_idx[1], bat, stage),
            <<ForwardCall(model_idx[1], bat, stage)>>)
    ELSE Ok(PredictionEnsemble([i \in Models |-> MemberForward(i, bat, stage)]),
            SeqOf([i \in Models |-> ForwardCall(i, bat, stage)], nmodels))

\* EnsembleASRBrain.compute_forward(batch, stage, model_idx)
Ens_compute_forward(bat, stage, model_idx) ==
    IF model_idx # None
    THEN Ok(MemberForward(model_idx[1], bat, stage),
            <<ForwardCall(model_idx[1], bat, stage)>>)
    ELSE Ok(PredictionEnsemble([i \in Models |-> MemberForward(i, bat, stage)]),
            SeqOf([i \in Models |-> ForwardCall(i, bat, stage)], nmodels))

\* EnsembleASRBrain.get_tokens(predictions, all, model_idx)
Ens_get_tokens(predictions, all, model_idx) ==
    IF isinstance_PredictionEnsemble(predictions)
    THEN IF PyLen(predictions) # nmodels
         THEN Raise("AssertionError", <<>>)
         ELSE IF all
         THEN Raise(PredictionEnsemble_iter(predictions).raised, <<>>)
         ELSE IF model_idx # None
         THEN Raise(PredictionEnsemble_getitem(predictions, model_idx[1]).raised, <<>>)
         ELSE Raise(PredictionEnsemble_getitem(predictions, ref_tokens).raised, <<>>)
    ELSE Ok(ASRBrain_get_tokens(predictions), <<TokensCall(ref_tokens, predictions)>>)

RECURSIVE BareLosses(_, _, _)
\* the loop of lines 116-120 on a bare prediction, i = 0 .. n-1: the losses
\* and the calls made
BareLosses(predictions, model_idx, n) ==
    IF n = 0 THEN [losses |-> <<>>, calls |-> <<>>]
    ELSE LET rest == BareLosses(predictions, model_idx, n - 1)
             ab == IF model_idx = None THEN n - 1 ELSE model_idx[1]
         IN  [losses |-> Append(rest.losses, MemberObjectives(ab, predictions)),
              calls |-> Append(rest.calls, ObjectivesCall(ab, predictions))]

\* EnsembleASRBrain.compute_objectives(predictions, batch, stage, average, model_idx)
Ens_compute_objectives(predictions, average, model_idx) ==
    IF isinstance_PredictionEnsemble(predictions) \/ model_idx = None
    THEN IF PyLen(predictions) # nmodels
         THEN Raise("AssertionError", <<>>)
         ELSE IF isinstance_PredictionEnsemble(predictions)
         THEN \* i = 0: pred = predictions[i] raises before any loss is computed
              Raise(PredictionEnsemble_getitem(predictions, 0).raised, <<>>)
         ELSE LET r == BareLosses(predictions, model_idx, nmodels)
                  loss == r.losses[Len(r.losses)]
              IN  IF average
                  THEN Ok(Mean(<<loss>>), r.calls)   \* torch.mean(loss, dim=0)
                  ELSE Ok(r.losses, r.calls)
    ELSE Ok(MemberObjectives(model_idx[1], predictions),
            <<ObjectivesCall(model_idx[1], predictions)>>)

\* ------------------------------------------------------- ensemble behaviour
EnsIdle == [fn |-> "none"]

EnsStart ==
    /\ nmodels \in 1 .. MaxModels
    /\ ref_tokens \in 0 .. (nmodels - 1)
    /\ loss_table \in [0 .. (nmodels - 1) -> 0 .. MaxLoss]
    /\ ens_call = EnsIdle
    /\ ens_out = EnsIdle

\* the predictions a caller can hold: the ensemble's own forward result, or
\* one member's bare prediction
EnsemblePrediction(bat, stage) == Ens_compute_forward(bat, stage, None).ret

CallComputeForward ==
    /\ ens_call = EnsIdle
    /\ \E bat \in Batches, stage \in Stages, model_idx \in OptIndex(nmodels) :
        /\ ens_call' = [fn |-> "compute_forward", batch |-> bat, stage |-> stage,
                        model_idx |-> model_idx]
        /\ ens_out' = Ens_compute_forward(bat, stage, model_idx)
        /\ UNCHANGED <<nmodels, ref_tokens, loss_table>>

CallGetTokens ==
    /\ ens_call = EnsIdle
    /\ \E bat \in Batches, stage \in Stages, ensemble \in BOOLEAN, k \in Models,
       all \in BOOLEAN, model_idx \in OptIndex(nmodels) :
        LET predictions == IF ensemble THEN EnsemblePrediction(bat, stage)
                           ELSE MemberForward(k, bat, stage)
        IN  /\ ens_call' = [fn |-> "get_tokens", predictions |-> predictions,
                            all |-> all, model_idx |-> model_idx]
            /\ ens_out' = Ens_get_tokens(predictions, all, model_idx)
            /\ UNCHANGED <<nmodels, ref_tokens, loss_table>>

CallComputeObjectives ==
    /\ ens_call = EnsIdle
    /\ \E bat \in Batches, stage \in Stages, ensemble \in BOOLEAN, k \in Models,
       average \in BOOLEAN, model_idx \in OptIndex(nmodels) :
        LET predictions == IF ensemble THEN EnsemblePrediction(bat, stage)
                           ELSE MemberForward(k, bat, stage)
        IN  /\ ens_call' = [fn |-> "compute_objectives", predictions |-> predictions,
                            average |-> average, model_idx |-> model_idx]
            /\ ens_out' = Ens_compute_objectives(predictions, average, model_idx)
            /\ UNCHANGED <<nmodels, ref_tokens, loss_table>>

\* no ensemble is in use
EnsOff ==
    /\ nmodels = 0
    /\ ref_tokens = 0
    /\ loss_table = <<>>
    /\ ens_call = EnsIdle
    /\ ens_out = EnsIdle

\* ---------------------------------------------------------------- str
RECURSIVE Spaces(_)
Spaces(n) == IF n <= 0 THEN <<>> ELSE <<" ">> \o Spaces(n - 1)

\* str.center(width) with the fill character " " (CPython: left pad
\* marg/2 + (marg & width & 1)); a string at least width long is unchanged
Center(s, width) ==
    IF Len(s) >= width THEN s
    ELSE LET marg == width - Len(s)
             left == (marg \div 2) + (IF marg % 2 = 1 /\ width % 2 = 1 THEN 1 ELSE 0)
         IN  Spaces(left) \o s \o Spaces(marg - left)

RECURSIVE Join(_, _)
\* separator.join(fields)
Join(separator, fields) ==
    IF fields = <<>> THEN <<>>
    ELSE IF Len(fields) = 1 THEN fields[1]
    ELSE fields[1] \o separator \o Join(separator, Tail(fields))

Max3(x, y, z) ==
    IF x >= y /\ x >= z THEN x ELSE IF y >= z THEN y ELSE z

\* --------------------------------------------------------- _print_alignment
\* default arguments of _print_alignment
empty_symbol == <<"<", "e", "p", "s", ">">>

separator == <<" ", ";", " ">>

\* the token lists a (reference) and b (hypothesis), as Python lists
RefTokens == (0 :> <<"a">>) @@ (1 :> <<"h", "e", "l", "l", "o", "!">>)

HypTokens == (0 :> <<"h", "i">>) @@ (1 :> <<"h", "y", "p", "o">>)

\* str(op) of the edit operations used
Ops == {<<"=">>, <<"i", "n", "s">>}

a_string(t) == IF t[2] # None THEN RefTokens[t[2][1]] ELSE empty_symbol

b_string(t) == IF t[3] # None THEN HypTokens[t[3][1]] ELSE empty_symbol

op_string(t) == t[1]

\* a variant of pad_length that forgets the operation string
pad_length_without_op(t) ==
    Max3(0, Len(a_string(t)), Len(b_string(t)))

pad_length(t) ==
    Max3(Len(op_string(t)), Len(a_string(t)), Len(b_string(t)))

\* the three lists built by the loop of lines 133-143
a_padded(al) == [k \in 1 .. Len(al) |-> Center(a_string(al[k]), pad_length(al[k]))]

b_padded(al) == [k \in 1 .. Len(al) |-> Center(b_string(al[k]), pad_length(al[k]))]

ops_padded(al) == [k \in 1 .. Len(al) |-> Center(op_string(al[k]), pad_length(al[k]))]

\* everything _print_alignment prints: Ref, op, Hyp
PrintedLines(al) ==
    <<Join(separator, a_padded(al)),
      Join(separator, ops_padded(al)),
      Join(separator, b_padded(al))>>

Triples ==
    {<<op, i, j>> : op \in Ops, i \in OptIndex(2), j \in OptIndex(2)}

RECURSIVE SeqsUpTo(_, _)
\* the sequences over S of length at most n
SeqsUpTo(S, n) ==
    IF n = 0 THEN {<<>>}
    ELSE LET shorter == SeqsUpTo(S, n - 1)
         IN  shorter \cup {Append(q, x) : q \in shorter, x \in S}

AlignStart ==
    /\ alignment \in SeqsUpTo(Triples, MaxAlign)
    /\ printed = <<>>

AlignOff ==
    /\ alignment = <<>>
    /\ printed = <<"off">>

PrintAlignment ==
    /\ printed = <<>>
    /\ printed' = printed \o PrintedLines(alignment)
    /\ UNCHANGED alignment

\* =================================================================
\* AdvASRBrain
\* =================================================================
\* The batch number k a loader yields: batch.sig = (waveform, lengths).
\* The loader builds a new object on every iteration.
Wav(k) == [id |-> k, adv |-> FALSE]

Batch(k) == [k |-> k, sig |-> <<Wav(k), [lens_of |-> k]>>]

\* a DataLoader of n batches, and the argument None
Loader(n) == [is_none |-> FALSE, n |-> n]

NoneSet == [is_none |-> TRUE, n |-> 0]

\* attacker.perturb(batch): the adversarial waveform for the batch
Perturb(b) == [b.sig[1] EXCEPT !.adv = TRUE]

\* compute_forward(batch, stage) of the concrete brain: the predictions are
\* determined by the signal the model is given and the stage
compute_forward(b, stage) == [sig |-> b.sig, stage |-> stage]

\* compute_objectives(predictions, batch, stage, adv): the loss is determined
\* by the predictions and the batch it is compared with
compute_objectives(predictions, b, stage, adv) ==
    [predictions |-> predictions, batch_sig |-> b.sig, stage |-> stage, adv |-> adv]

\* sb.Brain.update_average(loss, avg_loss): the running average folds the
\* loss in, weighted by self.step; it is kept as the folds made so far
update_average(loss, avg_loss, stp) == Append(avg_loss, [loss |-> loss, step |-> stp])

ZeroAvg == <<>>

\* compute_forward_adversarial that leaves the perturbed waveform in batch.sig
compute_forward_adversarial_no_restore(b, stage) ==
    IF stage = "ATTACK" THEN [raised |-> "AssertionError", batch |-> b]
    ELSE IF attacker = "unset" THEN [raised |-> "AttributeError", batch |-> b]
    ELSE LET b1 == IF attacker # "None"
                   THEN [b EXCEPT !.sig = <<Perturb(b), b.sig[2]>>]
                   ELSE b
         IN  IF attacker = "None"
             THEN [raised |-> "UnboundLocalError", batch |-> b1, seen |-> b1.sig]
             ELSE [raised |-> "none", ret |-> compute_forward(b1, stage),
                   batch |-> b1, seen |-> b1.sig]

\* AdvASRBrain.compute_forward_adversarial(batch, stage): the outcome, the
\* batch as the call leaves it, and the signal compute_forward was given
compute_forward_adversarial(b, stage) ==
    IF stage = "ATTACK" THEN [raised |-> "AssertionError", batch |-> b]
    ELSE IF attacker = "unset"
    THEN \* line 185 reads self.attacker, which was never assigned
         [raised |-> "AttributeError", batch |-> b]
    ELSE LET wavs == b.sig[1]
             b1 == IF attacker # "None"
                   THEN [b EXCEPT !.sig = <<Perturb(b), b.sig[2]>>]
                   ELSE b
             res == compute_forward(b1, stage)
             b2 == [b1 EXCEPT !.sig = <<wavs, b1.sig[2]>>]
         IN  IF attacker = "None"
             THEN \* line 190: del adv_wavs, a name that was never bound
                  [raised |-> "UnboundLocalError", batch |-> b2, seen |-> b1.sig]
             ELSE [raised |-> "none", ret |-> res, batch |-> b2, seen |-> b1.sig]

\* the record kept of a compute_forward_adversarial call
AdvCall(b, stage, out) == [called |-> TRUE, before |-> b, stage |-> stage, out |-> out]

NoAdvCall == [called |-> FALSE]

\* the trace entry of self.check_gradients(loss) and its answer
CheckEntry(grads_ok) ==
    IF grads_ok THEN "check_gradients=True" ELSE "check_gradients=False"

\* fit_batch_adversarial that steps the optimizer whatever check_gradients says
fit_batch_adversarial_always_step(b, grads_ok) ==
    LET fwd == compute_forward_adversarial(b, "TRAIN")
        pre == IF auto_mix_prec THEN <<"zero_grad">> ELSE <<>>
    IN  IF fwd.raised # "none"
        THEN [raised |-> fwd.raised, fwd |-> fwd,
              trace |-> pre \o <<"compute_forward_adversarial">>]
        ELSE LET loss == compute_objectives(fwd.ret, fwd.batch, "TRAIN", FALSE)
             IN  [raised |-> "none", fwd |-> fwd, loss |-> loss,
                  trace |-> pre \o <<"compute_forward_adversarial", "compute_objectives",
                                     "backward">>
                            \o (IF auto_mix_prec THEN <<"unscale_">> ELSE <<>>)
                            \o <<CheckEntry(grads_ok)>>
                            \o <<"step">>
                            \o (IF auto_mix_prec THEN <<"update">> ELSE <<"zero_grad">>)]

\* AdvASRBrain.fit_batch_adversarial(batch); grads_ok is what
\* self.check_gradients(loss) returns. trace: the optimizer and scaler calls
\* made, in order.
fit_batch_adversarial(b, grads_ok) ==
    LET fwd == compute_forward_adversarial(b, "TRAIN")
        pre == IF auto_mix_prec THEN <<"zero_grad">> ELSE <<>>
    IN  IF fwd.raised # "none"
        THEN [raised |-> fwd.raised, fwd |-> fwd,
              trace |-> pre \o <<"compute_forward_adversarial">>]
        ELSE LET loss == compute_objectives(fwd.ret, fwd.batch, "TRAIN", FALSE)
             IN  [raised |-> "none", fwd |-> fwd, loss |-> loss,
                  trace |-> pre \o <<"compute_forward_adversarial", "compute_objectives",
                                     "backward">>
                            \o (IF auto_mix_prec THEN <<"unscale_">> ELSE <<>>)
                            \o <<CheckEntry(grads_ok)>>
                            \o (IF grads_ok THEN <<"step">> ELSE <<>>)
                            \o (IF auto_mix_prec THEN <<"update">> ELSE <<"zero_grad">>)]

\* sb.Brain.evaluate_batch(batch, stage): the clean forward pass and loss
evaluate_batch(b, stage) ==
    LET out == compute_forward(b, stage)
    IN  [raised |-> "none", seen |-> b.sig,
         loss |-> compute_objectives(out, b, stage, FALSE)]

\* AdvASRBrain.evaluate_batch_adversarial(batch, stage)
evaluate_batch_adversarial(b, stage) ==
    LET fwd == compute_forward_adversarial(b, stage)
    IN  IF fwd.raised # "none"
        THEN [raised |-> fwd.raised, fwd |-> fwd]
        ELSE [raised |-> "none", fwd |-> fwd,
              loss |-> compute_objectives(fwd.ret, fwd.batch, stage, TRUE)]

\* the entries of batch_log
CleanEntry(k, r) == [fn |-> "evaluate_batch", k |-> k, raised |-> r.raised]

AdvEntry(k, r) == [fn |-> "evaluate_batch_adversarial", k |-> k, raised |-> r.raised]

FitEntry(k, r) == [fn |-> "fit_batch_adversarial", k |-> k, raised |-> r.raised]

\* the entries of stage_log
StageStart(stage, ep) == [fn |-> "on_stage_start", stage |-> stage, epoch |-> ep]

StageEnd(stage, loss, adv_loss, ep) ==
    [fn |-> "on_stage_end", stage |-> stage, stage_loss |-> loss,
     stage_adv_loss |-> adv_loss, epoch |-> ep]

\* on_stage_end called directly, on every process
run_on_main_every_process(log, entry) == Append(log, entry)

\* run_on_main(self.on_stage_end, ...): the call is made on the main process only
run_on_main(log, entry) == IF main_process THEN Append(log, entry) ELSE log

\* "if self.debug and self.step == self.debug_batches: break"
DebugBreak(stp) == debug /\ stp = debug_batches

\* ------------------------------------------------------------------- Init
BrainStart ==
    /\ attacker \in {"unset", "None", "present"}
    /\ debug \in BOOLEAN
    \* debug_batches and debug_epochs are read only when debug is set
    /\ debug_batches \in IF debug THEN 1 .. MaxDebugBatches ELSE {MaxDebugBatches}
    /\ debug_epochs \in IF debug THEN 1 .. MaxEpochs ELSE {MaxEpochs}
    /\ main_process \in BOOLEAN
    /\ pc \in {"fit", "evaluate"}
    \* auto_mix_prec is read by fit_batch_adversarial only
    /\ auto_mix_prec \in IF pc = "fit" THEN BOOLEAN ELSE {FALSE}
    /\ train_set \in IF pc = "fit" THEN {Loader(n) : n \in 0 .. MaxBatches}
                     ELSE {NoneSet}
    /\ valid_set \in IF pc = "fit"
                     THEN {NoneSet} \cup {Loader(n) : n \in 0 .. MaxBatches}
                     ELSE {NoneSet}
    /\ test_set \in IF pc = "evaluate" THEN {Loader(n) : n \in 0 .. MaxBatches}
                    ELSE {NoneSet}
    \* self.step as on_fit_start / on_evaluate_start leave it: 0, or the step
    \* an intra-epoch checkpoint recorded
    /\ step \in 0 .. MaxStep
    /\ epoch = 0
    /\ idx = 0
    /\ batch = Batch(0)
    /\ avg_train_loss = ZeroAvg
    /\ avg_valid_loss = ZeroAvg
    /\ avg_valid_adv_loss = ZeroAvg
    /\ avg_test_loss = ZeroAvg
    /\ avg_test_adv_loss = ZeroAvg
    /\ stage_log = <<>>
    /\ batch_log = <<>>
    /\ fit_trace = <<>>
    /\ last_adv = NoAdvCall
    /\ saved_ckpt = FALSE
    /\ exc = "none"

BrainOff ==
    /\ attacker = "unset"
    /\ debug = FALSE
    /\ debug_batches = 0
    /\ debug_epochs = 0
    /\ main_process = TRUE
    /\ auto_mix_prec = FALSE
    /\ train_set = NoneSet
    /\ valid_set = NoneSet
    /\ test_set = NoneSet
    /\ pc = "off"
    /\ step = 0
    /\ epoch = 0
    /\ idx = 0
    /\ batch = Batch(0)
    /\ avg_train_loss = ZeroAvg
    /\ avg_valid_loss = ZeroAvg
    /\ avg_valid_adv_loss = ZeroAvg
    /\ avg_test_loss = ZeroAvg
    /\ avg_test_adv_loss = ZeroAvg
    /\ stage_log = <<>>
    /\ batch_log = <<>>
    /\ fit_trace = <<>>
    /\ last_adv = NoAdvCall
    /\ saved_ckpt = FALSE
    /\ exc = "none"

\* --------------------------------------------------------------- actions
\* lines 405-413 and 489-493: one batch of a validation or test loop
eval_loop_body_adversarial_first(b, stage, stp, avg, avg_adv) ==
    LET a == evaluate_batch_adversarial(b, stage)
        c == evaluate_batch(a.fwd.batch, stage)
    IN  [raised |-> a.raised,
         calls |-> <<AdvEntry(b.k, a), CleanEntry(b.k, c)>>,
         avg |-> update_average(c.loss, avg, stp),
         avg_adv |-> IF a.raised = "none" THEN update_average(a.loss, avg_adv, stp)
                     ELSE avg_adv,
         fwd |-> a.fwd]

eval_loop_body(b, stage, stp, avg, avg_adv) ==
    LET c == evaluate_batch(b, stage)
        a == evaluate_batch_adversarial(b, stage)
    IN  [raised |-> a.raised,
         calls |-> <<CleanEntry(b.k, c), AdvEntry(b.k, a)>>,
         avg |-> update_average(c.loss, avg, stp),
         avg_adv |-> IF a.raised = "none" THEN update_average(a.loss, avg_adv, stp)
                     ELSE avg_adv,
         fwd |-> a.fwd]

\* fit, lines 338-355: the epoch counter yields the next epoch and the
\* training stage starts
StartEpoch ==
    /\ \/ pc = "fit"
       \/ pc = "epoch_end" /\ ~(debug /\ epoch = debug_epochs)
    /\ epoch < MaxEpochs
    /\ epoch' = epoch + 1
    /\ stage_log' = Append(stage_log, StageStart("TRAIN", epoch + 1))
    /\ batch_log' = <<>>
    /\ idx' = 0
    /\ pc' = "train"
    /\ UNCHANGED <<cfgVars, avgVars, step, batch, fit_trace, last_adv, saved_ckpt, exc>>

\* fit, lines 362-388: one training batch; grads_ok is the answer of
\* check_gradients, due the test of lines 374-379
TrainBatch ==
    /\ pc = "train"
    /\ idx < train_set.n
    /\ \E grads_ok \in BOOLEAN, due \in BOOLEAN :
        LET b == Batch(idx + 1)
            r == fit_batch_adversarial(b, grads_ok)
        IN  /\ step' = step + 1
            /\ idx' = idx + 1
            /\ batch' = r.fwd.batch
            /\ fit_trace' = r.trace
            /\ last_adv' = AdvCall(b, "TRAIN", r.fwd)
            /\ batch_log' = Append(batch_log, FitEntry(b.k, r))
            /\ IF r.raised # "none"
               THEN /\ pc' = "raised"
                    /\ exc' = r.raised
                    /\ saved_ckpt' = FALSE
                    /\ UNCHANGED avg_train_loss
               ELSE /\ avg_train_loss' = update_average(r.loss, avg_train_loss, step + 1)
                    /\ pc' = IF DebugBreak(step + 1) THEN "train_end" ELSE "train"
                    /\ saved_ckpt' = (~DebugBreak(step + 1) /\ due /\ main_process)
                    /\ UNCHANGED exc
    /\ UNCHANGED <<cfgVars, avg_valid_loss, avg_valid_adv_loss, avg_test_loss,
                   avg_test_adv_loss, epoch, stage_log>>

\* fit, lines 390-400: the training stage ends, the validation stage starts
\* if there is a validation set
EndTrain ==
    /\ \/ pc = "train_end"
       \/ pc = "train" /\ idx = train_set.n
    /\ avg_train_loss' = ZeroAvg
    /\ step' = 0
    /\ IF ~valid_set.is_none
       THEN /\ stage_log' = stage_log
                    \o <<[fn |-> "on_stage_end", stage |-> "TRAIN",
                          stage_loss |-> avg_train_loss, epoch |-> epoch],
                         StageStart("VALID", epoch)>>
            /\ avg_valid_loss' = ZeroAvg
            /\ avg_valid_adv_loss' = ZeroAvg
            /\ batch_log' = <<>>
            /\ idx' = 0
            /\ pc' = "valid"
       ELSE /\ stage_log' = Append(stage_log,
                                   [fn |-> "on_stage_end", stage |-> "TRAIN",
                                    stage_loss |-> avg_train_loss, epoch |-> epoch])
            /\ pc' = "epoch_end"
            /\ UNCHANGED <<avg_valid_loss, avg_valid_adv_loss, batch_log, idx>>
    /\ UNCHANGED <<cfgVars, avg_test_loss, avg_test_adv_loss, epoch, batch, fit_trace,
                   last_adv, saved_ckpt, exc>>

\* fit, lines 401-417: one validation batch
ValidBatch ==
    /\ pc = "valid"
    /\ idx < valid_set.n
    /\ LET b == Batch(idx + 1)
           r == eval_loop_body(b, "VALID", step + 1, avg_valid_loss, avg_valid_adv_loss)
       IN  /\ step' = step + 1
           /\ idx' = idx + 1
           /\ batch' = r.fwd.batch
           /\ last_adv' = AdvCall(b, "VALID", r.fwd)
           /\ batch_log' = batch_log \o r.calls
           /\ avg_valid_loss' = r.avg
           /\ avg_valid_adv_loss' = r.avg_adv
           /\ IF r.raised # "none"
              THEN pc' = "raised" /\ exc' = r.raised
              ELSE /\ pc' = IF DebugBreak(step + 1) THEN "valid_end" ELSE "valid"
                   /\ UNCHANGED exc
    /\ UNCHANGED <<cfgVars, avg_train_loss, avg_test_loss, avg_test_adv_loss, epoch,
                   stage_log, fit_trace, saved_ckpt>>

\* fit, lines 419-425: the validation stage ends
EndValid ==
    /\ \/ pc = "valid_end"
       \/ pc = "valid" /\ idx = valid_set.n
    /\ step' = 0
    /\ stage_log' = run_on_main(stage_log,
                        StageEnd("VALID", avg_valid_loss, avg_valid_adv_loss, epoch))
    /\ pc' = "epoch_end"
    /\ UNCHANGED <<cfgVars, avgVars, epoch, idx, batch, batch_log, fit_trace,
                   last_adv, saved_ckpt, exc>>

\* fit, lines 427-432 and 338: the debug break, or the epoch counter is
\* exhausted
FitReturn ==
    /\ pc = "epoch_end"
    /\ (debug /\ epoch = debug_epochs) \/ epoch = MaxEpochs
    /\ pc' = "done"
    /\ UNCHANGED <<cfgVars, avgVars, epoch, step, idx, batch, stage_log, batch_log,
                   fit_trace, last_adv, saved_ckpt, exc>>

\* evaluate, lines 479-483; epoch=None is recorded as epoch 0
StartEvaluate ==
    /\ pc = "evaluate"
    /\ stage_log' = Append(stage_log, StageStart("TEST", 0))
    /\ avg_test_loss' = ZeroAvg
    /\ avg_test_adv_loss' = ZeroAvg
    /\ batch_log' = <<>>
    /\ idx' = 0
    /\ pc' = "test"
    /\ UNCHANGED <<cfgVars, avg_train_loss, avg_valid_loss, avg_valid_adv_loss, epoch,
                   step, batch, fit_trace, last_adv, saved_ckpt, exc>>

\* evaluate, lines 485-497: one test batch
TestBatch ==
    /\ pc = "test"
    /\ idx < test_set.n
    /\ LET b == Batch(idx + 1)
           r == eval_loop_body(b, "TEST", step + 1, avg_test_loss, avg_test_adv_loss)
       IN  /\ step' = step + 1
           /\ idx' = idx + 1
           /\ batch' = r.fwd.batch
           /\ last_adv' = AdvCall(b, "TEST", r.fwd)
           /\ batch_log' = batch_log \o r.calls
           /\ avg_test_loss' = r.avg
           /\ avg_test_adv_loss' = r.avg_adv
           /\ IF r.raised # "none"
              THEN pc' = "raised" /\ exc' = r.raised
              ELSE /\ pc' = IF DebugBreak(step + 1) THEN "test_end" ELSE "test"
                   /\ UNCHANGED exc
    /\ UNCHANGED <<cfgVars, avg_train_loss, avg_valid_loss, avg_valid_adv_loss, epoch,
                   stage_log, fit_trace, saved_ckpt>>

\* evaluate, lines 499-505
EndTest ==
    /\ \/ pc = "test_end"
       \/ pc = "test" /\ idx = test_set.n
    /\ stage_log' = run_on_main(stage_log,
                        StageEnd("TEST", avg_test_loss, avg_test_adv_loss, 0))
    /\ step' = 0
    /\ pc' = "done"
    /\ UNCHANGED <<cfgVars, avgVars, epoch, idx, batch, batch_log, fit_trace,
                   last_adv, saved_ckpt, exc>>

\* =================================================================
\* fit in a DDP job: every process runs fit on its shard of the data
\* =================================================================
Procs == 0 .. MaxRank

\* sb.utils.distributed.if_main_process(): rank 0
if_main_process(p) == p = 0

\* what a process does next, as the checkpoint block or run_on_main decide it
Continue(p, at) ==
    [pc |-> at, resume |-> p_resume[p], arrived |-> p_arrived[p]]

\* ddp_barrier(): the process enters the barrier and continues at "at" once
\* every process has entered it
EnterBarrier(p, at) ==
    [pc |-> "barrier", resume |-> at, arrived |-> p_arrived[p] + 1]

\* the checkpoint block saving through run_on_main, which ends in a barrier
intra_epoch_ckpt_run_on_main(p) == EnterBarrier(p, "train")

\* lines 386-388: inside the intra-epoch checkpoint block
intra_epoch_ckpt(p) == Continue(p, "train")

\* run_on_main(func, ...): func on the main process, then ddp_barrier() on
\* every process
run_on_main_barrier(p, at) == EnterBarrier(p, at)

DdpStart ==
    /\ debug \in BOOLEAN
    /\ debug_batches \in IF debug THEN 1 .. MaxDebugBatches ELSE {MaxDebugBatches}
    /\ debug_epochs \in IF debug THEN 1 .. MaxEpochs ELSE {MaxEpochs}
    /\ train_set \in {Loader(n) : n \in 0 .. MaxBatches}
    /\ valid_set \in {NoneSet, Loader(MaxBatches)}
    /\ p_pc = [p \in Procs |-> "fit"]
    /\ p_epoch = [p \in Procs |-> 0]
    /\ p_step = [p \in Procs |-> 0]
    /\ p_idx = [p \in Procs |-> 0]
    /\ p_last_ckpt = [p \in Procs |-> 0]
    /\ p_arrived = [p \in Procs |-> 0]
    /\ p_resume = [p \in Procs |-> "none"]
    /\ p_saved = {}
    \* the rest of the brain's state is not followed here
    /\ attacker = "present"
    /\ main_process = TRUE
    /\ auto_mix_prec = FALSE
    /\ test_set = NoneSet
    /\ pc = "ddp"
    /\ step = 0
    /\ epoch = 0
    /\ idx = 0
    /\ batch = Batch(0)
    /\ avg_train_loss = ZeroAvg
    /\ avg_valid_loss = ZeroAvg
    /\ avg_valid_adv_loss = ZeroAvg
    /\ avg_test_loss = ZeroAvg
    /\ avg_test_adv_loss = ZeroAvg
    /\ stage_log = <<>>
    /\ batch_log = <<>>
    /\ fit_trace = <<>>
    /\ last_adv = NoAdvCall
    /\ saved_ckpt = FALSE
    /\ exc = "none"

DdpOff ==
    /\ p_pc = <<>>
    /\ p_epoch = <<>>
    /\ p_step = <<>>
    /\ p_idx = <<>>
    /\ p_last_ckpt = <<>>
    /\ p_arrived = <<>>
    /\ p_resume = <<>>
    /\ p_saved = {}

\* lines 338-352
PStartEpoch(p) ==
    /\ \/ p_pc[p] = "fit"
       \/ p_pc[p] = "epoch_end" /\ ~(debug /\ p_epoch[p] = debug_epochs)
    /\ p_epoch[p] < MaxEpochs
    /\ p_epoch' = [p_epoch EXCEPT ![p] = @ + 1]
    /\ p_idx' = [p_idx EXCEPT ![p] = 0]
    /\ p_last_ckpt' = [p_last_ckpt EXCEPT ![p] = 0]
    /\ p_pc' = [p_pc EXCEPT ![p] = "train"]
    /\ UNCHANGED <<p_step, p_arrived, p_resume, p_saved>>

\* lines 362-388: one training batch; due is the test of lines 374-379,
\* which depends on the process's own clock
PTrainBatch(p) ==
    /\ p_pc[p] = "train"
    /\ p_idx[p] < train_set.n
    /\ p_step' = [p_step EXCEPT ![p] = @ + 1]
    /\ p_idx' = [p_idx EXCEPT ![p] = @ + 1]
    /\ \E due \in BOOLEAN :
          IF DebugBreak(p_step[p] + 1)
          THEN /\ p_pc' = [p_pc EXCEPT ![p] = "train_end"]
               /\ UNCHANGED <<p_last_ckpt, p_arrived, p_resume, p_saved>>
          ELSE IF due
          THEN LET c == intra_epoch_ckpt(p)
               IN  /\ p_saved' = IF if_main_process(p) THEN p_saved \cup {p} ELSE p_saved
                   /\ p_last_ckpt' = [p_last_ckpt EXCEPT ![p] = p_idx[p] + 1]
                   /\ p_pc' = [p_pc EXCEPT ![p] = c.pc]
                   /\ p_resume' = [p_resume EXCEPT ![p] = c.resume]
                   /\ p_arrived' = [p_arrived EXCEPT ![p] = c.arrived]
          ELSE UNCHANGED <<p_pc, p_last_ckpt, p_arrived, p_resume, p_saved>>
    /\ UNCHANGED p_epoch

\* lines 390-400
PEndTrain(p) ==
    /\ \/ p_pc[p] = "train_end"
       \/ p_pc[p] = "train" /\ p_idx[p] = train_set.n
    /\ p_step' = [p_step EXCEPT ![p] = 0]
    /\ p_pc' = [p_pc EXCEPT ![p] = IF valid_set.is_none THEN "epoch_end" ELSE "valid"]
    /\ UNCHANGED <<p_epoch, p_idx, p_last_ckpt, p_arrived, p_resume, p_saved>>

\* lines 401-425: the validation loop, then run_on_main(on_stage_end)
PValidStage(p) ==
    /\ p_pc[p] = "valid"
    /\ p_step' = [p_step EXCEPT ![p] = 0]
    /\ LET c == run_on_main_barrier(p, "epoch_end")
       IN  /\ p_pc' = [p_pc EXCEPT ![p] = c.pc]
           /\ p_resume' = [p_resume EXCEPT ![p] = c.resume]
           /\ p_arrived' = [p_arrived EXCEPT ![p] = c.arrived]
    /\ UNCHANGED <<p_epoch, p_idx, p_last_ckpt, p_saved>>

\* the barrier releases a process once every process has entered it
PBarrierPass(p) ==
    /\ p_pc[p] = "barrier"
    /\ \A q \in Procs : p_arrived[q] >= p_arrived[p]
    /\ p_pc' = [p_pc EXCEPT ![p] = p_resume[p]]
    /\ p_resume' = [p_resume EXCEPT ![p] = "none"]
    /\ UNCHANGED <<p_epoch, p_step, p_idx, p_last_ckpt, p_arrived, p_saved>>

\* lines 427-432 and 338
PReturn(p) ==
    /\ p_pc[p] = "epoch_end"
    /\ (debug /\ p_epoch[p] = debug_epochs) \/ p_epoch[p] = MaxEpochs
    /\ p_pc' = [p_pc EXCEPT ![p] = "done"]
    /\ UNCHANGED <<p_epoch, p_step, p_idx, p_last_ckpt, p_arrived, p_resume, p_saved>>

\* =================================================================
\* AdvASRBrain.__setattr__, __init__ and init_attacker
\* =================================================================
\* An object is [attrs, attacker]: attrs maps the names assigned on it (other
\* than attacker) to their values; attacker is <<>> while the attribute does
\* not exist (hasattr is false), else <<value>>.
EmptyObject == [attrs |-> [n \in {} |-> 0], attacker |-> <<>>]

hasattr_attacker(o) == o.attacker # <<>>

\* the value None of the attribute attacker, and an attacker object built by
\* attack_class(brain_to_attack), which keeps the brain as asr_brain
NoneAttacker == [is_none |-> TRUE]

Attacker(brain_to_attack) == [is_none |-> FALSE, asr_brain |-> brain_to_attack]

\* the __setattr__ of the base classes (object.__setattr__): a plain store
Base_setattr(o, name, value) ==
    IF name = "attacker" THEN [o EXCEPT !.attacker = <<value>>]
    ELSE [o EXCEPT !.attrs = [n \in DOMAIN @ \cup {name} |->
                                 IF n = name THEN value ELSE @[n]]]

\* __setattr__ without the test of the name: attacker is mirrored too
Adv_setattr_mirrors_attacker(o, name, value, attacker_brain) ==
    IF hasattr_attacker(o) /\ attacker_brain
    THEN IF o.attacker[1].is_none
         THEN [raised |-> "AttributeError", obj |-> o]
         ELSE LET inner == Base_setattr(o.attacker[1].asr_brain, name, value)
                  o1 == [o EXCEPT !.attacker = <<Attacker(inner)>>]
              IN  [raised |-> "none", obj |-> Base_setattr(o1, name, value)]
    ELSE [raised |-> "none", obj |-> Base_setattr(o, name, value)]

\* AdvASRBrain.__setattr__(name, value, attacker_brain), lines 158-161
Adv_setattr(o, name, value, attacker_brain) ==
    IF hasattr_attacker(o) /\ name # "attacker" /\ attacker_brain
    THEN IF o.attacker[1].is_none
         THEN \* self.attacker.asr_brain on None
              [raised |-> "AttributeError", obj |-> o]
         ELSE LET inner == Base_setattr(o.attacker[1].asr_brain, name, value)
                  o1 == [o EXCEPT !.attacker = <<Attacker(inner)>>]
              IN  [raised |-> "none", obj |-> Base_setattr(o1, name, value)]
    ELSE [raised |-> "none", obj |-> Base_setattr(o, name, value)]

\* ASRBrain.__init__ (sb.Brain.__init__), lines 141-148: the attributes the
\* base constructor assigns, each through __setattr__
Brain_init(o, checkpointer) ==
    LET o1 == Adv_setattr(o, "checkpointer", checkpointer, TRUE).obj
        o2 == Adv_setattr(o1, "step", 0, TRUE).obj
    IN  Adv_setattr(o2, "avg_train_loss", 0, TRUE).obj

RECURSIVE NewAdvASRBrain(_, _)
\* AdvASRBrain(checkpointer=..., attack_class=...): __init__, lines 132-156,
\* with init_attacker, lines 163-180
NewAdvASRBrain(checkpointer, attack_class) ==
    LET o == Brain_init(EmptyObject, checkpointer)
    IN  IF attack_class # "None"
        THEN LET brain_to_attack == NewAdvASRBrain("None", "None")
             IN  Adv_setattr(o, "attacker", Attacker(brain_to_attack), TRUE).obj
        ELSE o

\* the attributes fit and evaluate assign (lines 344, 363-366, 392-393, 404,
\* 420, 488, 504)
AssignedNames == {"step", "avg_train_loss", "nonfinite_count"}

NoSet == [fn |-> "none"]

AttrStart ==
    /\ \E checkpointer \in {"None", "Checkpointer"}, attack_class \in {"None", "PGD"} :
          adv_brain = NewAdvASRBrain(checkpointer, attack_class)
    /\ assigned = {}
    /\ last_set = NoSet

AttrOff ==
    /\ adv_brain = EmptyObject
    /\ assigned = {}
    /\ last_set = NoSet

\* brain.name = value
AssignAttr ==
    \E name \in AssignedNames, value \in 0 .. MaxAttr :
        LET r == Adv_setattr(adv_brain, name, value, TRUE)
        IN  /\ adv_brain' = r.obj
            /\ assigned' = IF r.raised = "none" THEN assigned \cup {name} ELSE assigned
            /\ last_set' = [fn |-> "setattr", name |-> name, value |-> value,
                            raised |-> r.raised]

\* self.step += 1, lines 363, 404, 488
IncrementStep ==
    /\ adv_brain.attrs["step"] < MaxAttr
    /\ LET value == adv_brain.attrs["step"] + 1
           r == Adv_setattr(adv_brain, "step", value, TRUE)
       IN  /\ adv_brain' = r.obj
           /\ assigned' = IF r.raised = "none" THEN assigned \cup {"step"} ELSE assigned
           /\ last_set' = [fn |-> "setattr", name |-> "step", value |-> value,
                           raised |-> r.raised]

\* brain.attacker = None, or an attacker around a newly built brain to attack
AssignAttacker ==
    \E value \in {NoneAttacker, Attacker(NewAdvASRBrain("None", "None"))} :
        LET r == Adv_setattr(adv_brain, "attacker", value, TRUE)
        IN  /\ adv_brain' = r.obj
            /\ assigned' = {}
            /\ last_set' = [fn |-> "setattr", name |-> "attacker", value |-> 0,
                            raised |-> r.raised]

InitEns == EnsStart /\ AlignOff /\ BrainOff /\ DdpOff /\ AttrOff

NextEns ==
    \/ CallComputeForward /\ UNCHANGED <<alignVars, brainVars, ddpVars, attrVars>>
    \/ CallGetTokens /\ UNCHANGED <<alignVars, brainVars, ddpVars, attrVars>>
    \/ CallComputeObjectives /\ UNCHANGED <<alignVars, brainVars, ddpVars, attrVars>>

SpecEns == InitEns /\ [][NextEns]_vars

InitAlign == AlignStart /\ EnsOff /\ BrainOff /\ DdpOff /\ AttrOff

NextAlign == PrintAlignment /\ UNCHANGED <<ensVars, brainVars, ddpVars, attrVars>>

SpecAlign == InitAlign /\ [][NextAlign]_vars

InitBrain == BrainStart /\ EnsOff /\ AlignOff /\ DdpOff /\ AttrOff

NextBrain ==
    \/ StartEpoch /\ UNCHANGED <<ensVars, alignVars, ddpVars, attrVars>>
    \/ TrainBatch /\ UNCHANGED <<ensVars, alignVars, ddpVars, attrVars>>
    \/ EndTrain /\ UNCHANGED <<ensVars, alignVars, ddpVars, attrVars>>
    \/ ValidBatch /\ UNCHANGED <<ensVars, alignVars, ddpVars, attrVars>>
    \/ EndValid /\ UNCHANGED <<ensVars, alignVars, ddpVars, attrVars>>
    \/ FitReturn /\ UNCHANGED <<ensVars, alignVars, ddpVars, attrVars>>
    \/ StartEvaluate /\ UNCHANGED <<ensVars, alignVars, ddpVars, attrVars>>
    \/ TestBatch /\ UNCHANGED <<ensVars, alignVars, ddpVars, attrVars>>
    \/ EndTest /\ UNCHANGED <<ensVars, alignVars, ddpVars, attrVars>>

SpecBrain == InitBrain /\ [][NextBrain]_vars

InitDdp == DdpStart /\ EnsOff /\ AlignOff /\ AttrOff

NextDdp ==
    \/ \E p \in Procs : PStartEpoch(p) /\ UNCHANGED <<ensVars, alignVars, brainVars, attrVars>>
    \/ \E p \in Procs : PTrainBatch(p) /\ UNCHANGED <<ensVars, alignVars, brainVars, attrVars>>
    \/ \E p \in Procs : PEndTrain(p) /\ UNCHANGED <<ensVars, alignVars, brainVars, attrVars>>
    \/ \E p \in Procs : PValidStage(p) /\ UNCHANGED <<ensVars, alignVars, brainVars, attrVars>>
    \/ \E p \in Procs : PBarrierPass(p) /\ UNCHANGED <<ensVars, alignVars, brainVars, attrVars>>
    \/ \E p \in Procs : PReturn(p) /\ UNCHANGED <<ensVars, alignVars, brainVars, attrVars>>

SpecDdp == InitDdp /\ [][NextDdp]_vars

InitAttr == AttrStart /\ EnsOff /\ AlignOff /\ BrainOff /\ DdpOff

NextAttr ==
    \/ AssignAttr /\ UNCHANGED <<ensVars, alignVars, brainVars, ddpVars>>
    \/ IncrementStep /\ UNCHANGED <<ensVars, alignVars, brainVars, ddpVars>>
    \/ AssignAttacker /\ UNCHANGED <<ensVars, alignVars, brainVars, ddpVars>>

SpecAttr == InitAttr /\ [][NextAttr]_vars

\* ---------------------------------------------------------------- DDP claim
\* the validation stages process p has finished: one run_on_main each
C6_ValidStagesDone(p) ==
    IF valid_set.is_none \/ p_epoch[p] = 0 THEN 0
    ELSE IF p_pc[p] \in {"train", "train_end", "valid"} THEN p_epoch[p] - 1
    ELSE p_epoch[p]

\* C6: in a DDP fit the intra-epoch checkpoint block holds no barrier and
\* only the main process saves in it; whichever batches a process enters the
\* block at, it enters exactly one barrier per epoch that has a validation
\* set (run_on_main), so no process waits at a barrier another process never
\* enters, and the job never gets stuck.
C6_SameBarriersInEveryProcess ==
    /\ \A p \in p_saved : if_main_process(p)
    /\ \A p \in Procs :
           /\ p_arrived[p] = C6_ValidStagesDone(p)
           /\ p_pc[p] = "barrier" => p_resume[p] = "epoch_end"
           /\ \A q \in Procs :
                  ~(/\ p_pc[p] = "barrier"
                    /\ p_pc[q] = "done"
                    /\ p_arrived[q] < p_arrived[p])
    /\ (\A p \in Procs : p_pc[p] = "done") \/ ENABLED NextDdp

\* C6 witness: two processes that last entered the checkpoint block at
\* different batches (only rank 0 saving) and both finished fit, having
\* passed a barrier in every epoch
C6_Witness ==
    /\ ~valid_set.is_none
    /\ \A p \in Procs : p_pc[p] = "done"
    /\ \E p, q \in Procs : p_last_ckpt[p] # p_last_ckpt[q]
    /\ p_saved = {0}
    /\ \A p \in Procs : p_arrived[p] = MaxEpochs

\* -------------------------------------------------------------- brain claims
\* C1: without an attacker (the attribute unset, or None),
\* compute_forward_adversarial with a stage other than ATTACK returns without
\* raising, and returns compute_forward of the unperturbed batch.
C1_NoAttackerForwardsClean ==
    (last_adv.called /\ attacker # "present")
    => /\ last_adv.out.raised = "none"
       /\ last_adv.out.ret = compute_forward(last_adv.before, last_adv.stage)

\* the batch with its waveform replaced by the attacker's
C2_Perturbed(b) == [b EXCEPT !.sig = <<Perturb(b), b.sig[2]>>]

\* C2: with an attacker, compute_forward_adversarial runs compute_forward on
\* the batch with waveform attacker.perturb(batch) and the lengths unchanged,
\* and leaves batch.sig = (original waveform, original lengths); so the loop
\* variable batch, every clean evaluation and every loss computed after the
\* adversarial forward pass see the unperturbed waveform.
C2_PerturbedForwardThenRestored ==
    attacker = "present"
    => /\ last_adv.called
          => LET b == last_adv.before
                 o == last_adv.out
             IN  /\ o.raised = "none"
                 /\ o.seen = <<Perturb(b), b.sig[2]>>
                 /\ o.seen[1] # b.sig[1]
                 /\ o.ret = compute_forward(C2_Perturbed(b), last_adv.stage)
                 /\ o.batch.sig = b.sig
                 /\ batch = b
       /\ batch.sig = Batch(batch.k).sig
       /\ \A avg \in {avg_valid_loss, avg_test_loss} :
              \A i \in 1 .. Len(avg) :
                  /\ avg[i].loss.predictions.sig = Batch(i).sig
                  /\ avg[i].loss.batch_sig = Batch(i).sig
       /\ \A avg \in {avg_train_loss, avg_valid_adv_loss, avg_test_adv_loss} :
              \A i \in 1 .. Len(avg) :
                  /\ avg[i].loss.predictions.sig = C2_Perturbed(Batch(i)).sig
                  /\ avg[i].loss.batch_sig = Batch(i).sig

\* C2 witness: the clean evaluation of a second validation batch, after the
\* adversarial evaluation of the first
C2_Witness ==
    /\ attacker = "present"
    /\ pc = "valid"
    /\ idx = 2
    /\ Len(avg_valid_loss) = 2
    /\ last_adv.called
    /\ last_adv.out.seen[1].adv

RECURSIVE LastStarted(_)
\* the stage of the latest on_stage_start in a stage log ("none" if none)
LastStarted(log) ==
    IF log = <<>> THEN "none"
    ELSE IF log[Len(log)].fn = "on_stage_start" THEN log[Len(log)].stage
    ELSE LastStarted(SubSeq(log, 1, Len(log) - 1))

\* the on_stage_end calls of a stage and epoch in the stage log
C3_Ends(stage, ep) ==
    {i \in 1 .. Len(stage_log) :
        /\ stage_log[i].fn = "on_stage_end"
        /\ stage_log[i].stage = stage
        /\ stage_log[i].epoch = ep}

C3_Stage(stage, ep, avg, avg_adv, looping, over) ==
    LET crashed == pc = "raised"
    IN  \* clean, then adversarial, batch after batch
        /\ Len(batch_log) = 2 * idx
        /\ \A k \in 1 .. idx :
               /\ batch_log[2 * k - 1] = [fn |-> "evaluate_batch", k |-> k, raised |-> "none"]
               /\ batch_log[2 * k].fn = "evaluate_batch_adversarial"
               /\ batch_log[2 * k].k = k
               /\ ~(crashed /\ k = idx) => batch_log[2 * k].raised = "none"
        \* both averages fold the batches 1 .. idx, each once, in order
        /\ Len(avg) = idx
        /\ Len(avg_adv) = IF crashed THEN idx - 1 ELSE idx
        /\ \A k \in 1 .. Len(avg) : avg[k].loss.batch_sig = Batch(k).sig /\ ~avg[k].loss.adv
        /\ \A k \in 1 .. Len(avg_adv) :
               avg_adv[k].loss.batch_sig = Batch(k).sig /\ avg_adv[k].loss.adv
        \* on_stage_end: not before the loop is over, once after it (on the
        \* process run_on_main runs it on), with the two averages
        /\ (looping \/ crashed) => C3_Ends(stage, ep) = {}
        /\ over => /\ Cardinality(C3_Ends(stage, ep)) = IF main_process THEN 1 ELSE 0
                   /\ main_process
                      => stage_log[Len(stage_log)] = StageEnd(stage, avg, avg_adv, ep)

\* C3: in the validation stage of fit and in evaluate every batch iterated is
\* evaluated once clean and then once adversarially before the next batch
\* is taken, the two averages are over the same batches, and on_stage_end is
\* called once after the loop (by run_on_main, so on the main process) with
\* the clean average as stage loss and the adversarial one as stage_adv_loss,
\* also when the debug break ends the loop.
C3_CleanThenAdversarialEachBatch ==
    /\ LastStarted(stage_log) = "VALID"
       => C3_Stage("VALID", epoch, avg_valid_loss, avg_valid_adv_loss,
                   pc \in {"valid", "valid_end"}, pc \in {"epoch_end", "done"})
    /\ LastStarted(stage_log) = "TEST"
       => C3_Stage("TEST", 0, avg_test_loss, avg_test_adv_loss,
                   pc \in {"test", "test_end"}, pc = "done")

\* C3 witness: a validation loop the debug break ended before the loader
\* was exhausted, and its on_stage_end
C3_Witness ==
    /\ LastStarted(stage_log) = "VALID"
    /\ pc = "epoch_end"
    /\ debug
    /\ main_process
    /\ 1 <= idx
    /\ idx < valid_set.n
    /\ stage_log[Len(stage_log)].fn = "on_stage_end"
    /\ Len(stage_log[Len(stage_log)].stage_adv_loss) = idx

\* the batches the current loop has processed (a batch whose evaluation
\* raised is not counted)
C9_Processed == IF pc = "raised" THEN idx - 1 ELSE idx

\* C9: with debug set, no training stage, validation stage or evaluate call
\* processes more than debug_batches batches, whatever self.step was at the
\* start.
C9_DebugRunsFewBatches ==
    debug => C9_Processed <= debug_batches

C10_Count(e) == Cardinality({i \in 1 .. Len(fit_trace) : fit_trace[i] = e})

C10_Pos(e) == CHOOSE i \in 1 .. Len(fit_trace) : fit_trace[i] = e

C10_Checks == C10_Count("check_gradients=True") + C10_Count("check_gradients=False")

\* C10: in fit_batch_adversarial, on both paths, the optimizer is stepped at
\* most once per batch and only if check_gradients returned true, the
\* backward pass precedes the check, and the gradients are zeroed exactly
\* once per batch whether or not the step was taken: before the forward pass
\* with mixed precision, after the step decision otherwise.
C10_StepOnlyAfterCheck ==
    /\ C10_Count("step") <= 1
    /\ C10_Count("step") = 1
       => /\ C10_Count("check_gradients=True") = 1
          /\ C10_Pos("check_gradients=True") < C10_Pos("step")
    /\ C10_Checks <= 1
    /\ C10_Checks = 1
       => /\ C10_Count("backward") = 1
          /\ \A i \in 1 .. Len(fit_trace) :
                 fit_trace[i] \in {"check_gradients=True", "check_gradients=False"}
                 => C10_Pos("backward") < i
          \* the call returned: the gradients were zeroed exactly once
          /\ C10_Count("zero_grad") = 1
          /\ IF auto_mix_prec
             THEN C10_Pos("zero_grad") < C10_Pos("compute_forward_adversarial")
             ELSE /\ C10_Pos("zero_grad") = Len(fit_trace)
                  /\ C10_Pos("zero_grad") > C10_Pos("backward") + 1
    /\ (fit_trace # <<>> /\ attacker = "present") => C10_Checks = 1

\* C10 witnesses: a batch whose check failed on the plain path, so that the
\* step was skipped and the gradients zeroed all the same
C10_Witness ==
    /\ ~auto_mix_prec
    /\ C10_Count("check_gradients=False") = 1
    /\ C10_Count("step") = 0
    /\ C10_Count("zero_grad") = 1

\* --------------------------------------------------------- alignment claim
\* the longest of the three strings of a triple
C7_Longest(t) ==
    LET lens == {Len(op_string(t)), Len(a_string(t)), Len(b_string(t))}
    IN  CHOOSE n \in lens : \A m \in lens : n >= m

RECURSIVE C7_Offset(_)
\* where column k starts in a line
C7_Offset(k) ==
    IF k = 1 THEN 0
    ELSE C7_Offset(k - 1) + C7_Longest(alignment[k - 1]) + Len(separator)

C7_Centred(field, str) ==
    \E l \in 0 .. (Len(field) - Len(str)) :
        LET r == Len(field) - Len(str) - l
        IN  /\ field = Spaces(l) \o str \o Spaces(r)
            /\ l - r \in {-1, 0, 1}

C7_LineOf(line, StrOf(_)) ==
    LET n == Len(alignment)
    IN  /\ Len(line) = IF n = 0 THEN 0
                       ELSE C7_Offset(n) + C7_Longest(alignment[n])
        /\ \A k \in 1 .. n :
               LET off == C7_Offset(k)
                   w == C7_Longest(alignment[k])
               IN  /\ C7_Centred(SubSeq(line, off + 1, off + w), StrOf(alignment[k]))
                   /\ k < n => SubSeq(line, off + w + 1, off + w + Len(separator))
                                    = separator

\* C7: _print_alignment prints exactly three lines, reference, operations,
\* hypothesis, each with one field per alignment triple joined by the
\* separator; a None index is rendered as the empty symbol; in every column
\* the three fields are centred to the width of the longest of the three
\* strings, so the three lines have equal length.
C7_ThreeAlignedLines ==
    printed # <<>>
    => /\ Len(printed) = 3
       /\ C7_LineOf(printed[1], a_string)
       /\ C7_LineOf(printed[2], op_string)
       /\ C7_LineOf(printed[3], b_string)
       /\ Len(printed[1]) = Len(printed[2])
       /\ Len(printed[2]) = Len(printed[3])
       /\ \A k \in 1 .. Len(alignment) :
              /\ alignment[k][2] = None => a_string(alignment[k]) = empty_symbol
              /\ alignment[k][3] = None => b_string(alignment[k]) = empty_symbol

\* C7 witness: two columns printed, one with a None index, one whose
\* operation string is longer than both tokens
C7_Witness ==
    /\ Len(printed) = 3
    /\ Len(alignment) = 2
    /\ \E k \in 1 .. 2 : alignment[k][2] = None
    /\ \E k \in 1 .. 2 :
           /\ Len(op_string(alignment[k])) > Len(a_string(alignment[k]))
           /\ Len(op_string(alignment[k])) > Len(b_string(alignment[k]))

\* ------------------------------------------------------------ stage order
\* which call a stage log entry is: its name, stage and epoch
C11_Shape(log) ==
    [i \in 1 .. Len(log) |-> <<log[i].fn, log[i].stage, log[i].epoch>>]

\* the stage calls of an epoch that has run to its end on this process
C11_WholeEpoch(e) ==
    <<<<"on_stage_start", "TRAIN", e>>, <<"on_stage_end", "TRAIN", e>>>>
    \o (IF valid_set.is_none THEN <<>> ELSE <<<<"on_stage_start", "VALID", e>>>>)
    \o (IF ~valid_set.is_none /\ main_process
        THEN <<<<"on_stage_end", "VALID", e>>>> ELSE <<>>)

\* whether fit stands in (or was ended by an exception in) the training loop
C11_InTrain ==
    \/ pc \in {"train", "train_end"}
    \/ pc = "raised" /\ batch_log[Len(batch_log)].fn = "fit_batch_adversarial"

C11_InValid ==
    \/ pc \in {"valid", "valid_end"}
    \/ pc = "raised" /\ batch_log[Len(batch_log)].fn # "fit_batch_adversarial"

\* the stage calls of the current epoch so far
C11_ThisEpoch ==
    IF pc = "fit" THEN <<>>
    ELSE IF C11_InTrain THEN <<<<"on_stage_start", "TRAIN", epoch>>>>
    ELSE IF C11_InValid
    THEN <<<<"on_stage_start", "TRAIN", epoch>>, <<"on_stage_end", "TRAIN", epoch>>,
           <<"on_stage_start", "VALID", epoch>>>>
    ELSE C11_WholeEpoch(epoch)

RECURSIVE C11_Epochs(_)
\* the stage calls of the epochs 1 .. e, all run to their end
C11_Epochs(e) == IF e <= 0 THEN <<>> ELSE C11_Epochs(e - 1) \o C11_WholeEpoch(e)

\* C11: in fit, in every epoch, on_stage_start(TRAIN) precedes the training
\* batches and on_stage_end(TRAIN) follows them on every process; with a
\* validation set on_stage_start(VALID) then runs on every process and
\* on_stage_end(VALID) after the validation batches on the main process only;
\* each stage that started has ended (where its on_stage_end runs at all)
\* before the next one starts, also after a debug break; self.step is 0 when
\* a validation stage begins and when an epoch ends.
C11_StagesPairedStepReset ==
    ~train_set.is_none
    => /\ C11_Shape(stage_log) = C11_Epochs(epoch - 1) \o C11_ThisEpoch
       \* the batches of a loop lie between the start and the end of its stage
       /\ C11_InTrain
          => /\ Len(batch_log) = idx
             /\ \A k \in 1 .. idx : batch_log[k].fn = "fit_batch_adversarial"
       /\ C11_InValid
          => \A k \in 1 .. Len(batch_log) : batch_log[k].fn # "fit_batch_adversarial"
       /\ \A i \in 1 .. Len(stage_log) :
              stage_log[i].fn = "on_stage_end"
              => LET n == IF stage_log[i].stage = "TRAIN" THEN train_set.n
                          ELSE valid_set.n
                 IN  /\ Len(stage_log[i].stage_loss) <= n
                     /\ ~debug => Len(stage_log[i].stage_loss) = n
       /\ (pc = "valid" /\ idx = 0) => step = 0
       /\ pc \in {"epoch_end", "done"} => step = 0

\* C11 witness: a process that is not the main one, in the second epoch's
\* training stage after a first epoch whose training loop the debug break
\* ended: its
\* log holds on_stage_start(VALID) of epoch 1 and no on_stage_end(VALID)
C11_Witness ==
    /\ ~train_set.is_none
    /\ ~valid_set.is_none
    /\ ~main_process
    /\ debug
    /\ epoch = 2
    /\ pc = "train"
    /\ Len(stage_log) = 4
    /\ Len(stage_log[2].stage_loss) < train_set.n

\* ------------------------------------------------- attribute mirroring claim
C12_HasAttacker == hasattr_attacker(adv_brain) /\ ~adv_brain.attacker[1].is_none

C12_Attacked == adv_brain.attacker[1].asr_brain

\* C12: once the brain has an attacker, an assignment brain.name = value with
\* name other than attacker does not raise and stores value on the brain and on
\* attacker.asr_brain, so every name assigned since the attacker was attached
\* has the same value on both brains; an assignment to attacker is stored on
\* the brain only; the attacked brain was built with checkpointer None and has
\* no attribute attacker, so there is exactly one level of attacked brain.
C12_AssignmentsMirroredDepthOne ==
    /\ C12_HasAttacker
       => /\ \A n \in assigned :
                /\ n \in DOMAIN adv_brain.attrs
                /\ n \in DOMAIN C12_Attacked.attrs
                /\ C12_Attacked.attrs[n] = adv_brain.attrs[n]
          /\ (last_set.fn = "setattr" /\ last_set.name # "attacker")
             => /\ last_set.raised = "none"
                /\ adv_brain.attrs[last_set.name] = last_set.value
                /\ C12_Attacked.attrs[last_set.name] = last_set.value
          /\ ~hasattr_attacker(C12_Attacked)
          /\ C12_Attacked.attrs["checkpointer"] = "None"
    /\ (last_set.fn = "setattr" /\ last_set.name = "attacker")
       => /\ last_set.raised = "none"
          /\ hasattr_attacker(adv_brain)

\* a brain whose attacker was replaced after construction, and whose step was
\* then incremented from a value the newly attacked brain never held
C12_Witness ==
    /\ C12_HasAttacker
    /\ adv_brain.attrs["checkpointer"] = "Checkpointer"
    /\ assigned = {"step"}
    /\ last_set.fn = "setattr" /\ last_set.name = "step" /\ last_set.value = 2
    /\ "nonfinite_count" \in DOMAIN adv_brain.attrs
    /\ "nonfinite_count" \notin DOMAIN C12_Attacked.attrs

\* ---------------------------------------------------------- ensemble claims
\* C4: compute_objectives on a PredictionEnsemble of nmodels predictions (no
\* model_idx) returns, with average=True, the mean of the nmodels per-model
\* losses, loss i computed by brain i on prediction i; with average=False the
\* nmodels losses in model order.
C4_ObjectivesCombineEveryModel ==
    (/\ ens_call.fn = "compute_objectives"
     /\ isinstance_PredictionEnsemble(ens_call.predictions)
     /\ ens_call.model_idx = None)
    => /\ ens_out.raised = "none"
       /\ Len(ens_out.calls) = nmodels
       /\ \A i \in Models :
              ens_out.calls[i + 1] = ObjectivesCall(i, ens_call.predictions.predictions[i])
       /\ IF ens_call.average
          THEN ens_out.ret.den = nmodels
               /\ ens_out.ret.num = SumSeq(SeqOf(loss_table, nmodels))
          ELSE ens_out.ret = SeqOf(loss_table, nmodels)

\* C5: compute_forward with model_idx=None calls every member brain exactly
\* once, in list order, and returns a PredictionEnsemble of length nmodels
\* whose i-th prediction is brain i's; with model_idx=k it calls brain k only
\* and returns its bare prediction.
C5_ForwardCallsEveryMemberOnce ==
    ens_call.fn = "compute_forward"
    => /\ ens_out.raised = "none"
       /\ IF ens_call.model_idx = None
          THEN /\ Len(ens_out.calls) = nmodels
               /\ \A i \in Models :
                      ens_out.calls[i + 1] = ForwardCall(i, ens_call.batch, ens_call.stage)
               /\ isinstance_PredictionEnsemble(ens_out.ret)
               /\ PyLen(ens_out.ret) = nmodels
               /\ \A i \in Models :
                      ens_out.ret.predictions[i]
                          = MemberForward(i, ens_call.batch, ens_call.stage)
          ELSE LET k == ens_call.model_idx[1]
               IN  /\ ens_out.calls = <<ForwardCall(k, ens_call.batch, ens_call.stage)>>
                   /\ ~isinstance_PredictionEnsemble(ens_out.ret)
                   /\ ens_out.ret = MemberForward(k, ens_call.batch, ens_call.stage)

\* C5 witness: a whole-ensemble forward of several models
C5_Witness ==
    /\ ens_call.fn = "compute_forward"
    /\ ens_call.model_idx = None
    /\ nmodels >= 2
    /\ Len(ens_out.calls) = nmodels

\* C8: get_tokens on a PredictionEnsemble returns by default brain
\* ref_tokens' tokens of prediction ref_tokens, with model_idx=k brain k's
\* tokens of prediction k, with all=True the nmodels token results in model
\* order; on a bare prediction the reference brain's tokens.
C8_GetTokensOfReferenceModel ==
    ens_call.fn = "get_tokens"
    => /\ ens_out.raised = "none"
       /\ LET p == ens_call.predictions
          IN  IF ~isinstance_PredictionEnsemble(p)
              THEN /\ ens_out.ret = ASRBrain_get_tokens(p)
                   /\ ens_out.calls = <<TokensCall(ref_tokens, p)>>
              ELSE IF ens_call.all
              THEN /\ Len(ens_out.ret) = nmodels
                   /\ \A i \in Models :
                          ens_out.ret[i + 1] = ASRBrain_get_tokens(p.predictions[i])
              ELSE LET k == IF ens_call.model_idx = None THEN ref_tokens
                            ELSE ens_call.model_idx[1]
                   IN  /\ ens_out.ret = ASRBrain_get_tokens(p.predictions[k])
                       /\ ens_out.calls = <<TokensCall(k, p.predictions[k])>>

====
